---- MODULE Spec2Model ----
(***************************************************************************)
(* The video-upload service of src/main.py: the upload handler             *)
(* (POST /api/videos), the listing handler (GET /api/videos), the upload   *)
(* directory and the "video" metadata collection.                          *)
(*                                                                         *)
(* Text is a sequence of one-character strings.  An optional value         *)
(* (Python's None or a value) is a sequence of length 0 or 1.              *)
(* The clock counts microseconds since 2024-01-01T00:00:00 UTC.            *)
(***************************************************************************)
EXTENDS Integers, Sequences, FiniteSets, TLC

VARIABLES
    now,        \* the wall clock datetime.utcnow() reads
    base_url,   \* the environment's PUBLIC_BACKEND_URL: None or Some(text)
    files,      \* UPLOAD_DIR: stored filename -> bytes
    db,         \* the "video" collection, in insertion order
    pc,         \* per upload request: "idle", "writing" (at await file.read()), "done"
    req,        \* per upload request: its content type and, once its file is open, its names
    resp,       \* per upload request: the response sent
    last_list   \* the latest response of GET /api/videos

vars == <<now, base_url, files, db, pc, req, resp, last_list>>

----------------------------------------------------------------------------
(* Bounds of the model *)

\* the upload requests of a run
NumSlots == 2

Slots == 1..NumSlots

----------------------------------------------------------------------------
(* Text helpers *)

None == << >>
Some(x) == <<x>>

Min(a, b) == IF a < b THEN a ELSE b

MaxOf(S) == CHOOSE x \in S : \A y \in S : y <= x

StartsWith(s, p) == Len(s) >= Len(p) /\ SubSeq(s, 1, Len(p)) = p

Contains(s, p) == \E i \in 1..(Len(s) + 1) : StartsWith(SubSeq(s, i, Len(s)), p)

\* str.rfind(c) + 1
LastIndexOf(s, c) ==
    LET I == {i \in 1..Len(s) : s[i] = c}
    IN  IF I = {} THEN 0 ELSE MaxOf(I)

Repeat(c, n) == [i \in 1..n |-> c]

DigitChars == <<"0", "1", "2", "3", "4", "5", "6", "7", "8", "9">>

DigitSet == {DigitChars[i] : i \in 1..10}

LetterSet ==
    {"a", "b", "c", "d", "e", "f", "g", "h", "i", "j", "k", "l", "m",
     "n", "o", "p", "q", "r", "s", "t", "u", "v", "w", "x", "y", "z",
     "A", "B", "C", "D", "E", "F", "G", "H", "I", "J", "K", "L", "M",
     "N", "O", "P", "Q", "R", "S", "T", "U", "V", "W", "X", "Y", "Z"}

\* str.isalnum() of one character
isalnum(c) == c \in LetterSet \cup DigitSet

RECURSIVE Pow10(_)
Pow10(k) == IF k = 0 THEN 1 ELSE 10 * Pow10(k - 1)

\* "%0<w>d" % n
ZeroPad(n, w) == [i \in 1..w |-> DigitChars[((n \div Pow10(w - i)) % 10) + 1]]

\* str(n) of a non-negative integer
RECURSIVE Str(_)
Str(n) ==
    IF n < 10 THEN <<DigitChars[n + 1]>>
    ELSE Str(n \div 10) \o <<DigitChars[(n % 10) + 1]>>

----------------------------------------------------------------------------
(* os.path *)

\* os.path.basename(p)
basename(p) == SubSeq(p, LastIndexOf(p, "/") + 1, Len(p))

\* os.path.splitext(p): <<root, ext>>
splitext(p) ==
    LET sepIndex == LastIndexOf(p, "/")
        dotIndex == LastIndexOf(p, ".")
    IN  IF /\ dotIndex > sepIndex
           /\ \E i \in (sepIndex + 1)..(dotIndex - 1) : p[i] # "."
        THEN <<SubSeq(p, 1, dotIndex - 1), SubSeq(p, dotIndex, Len(p))>>
        ELSE <<p, << >> >>

----------------------------------------------------------------------------
(* upload_video: the pure steps *)

VideoPrefix == <<"v", "i", "d", "e", "o", "/">>

DefaultBase == <<"v", "i", "d", "e", "o">>

UploadsPath == <<"/", "u", "p", "l", "o", "a", "d", "s", "/">>

MaxBaseLen == 50

TsWidth == 20

\* a plausible slip: a substring test instead of a prefix test
ContentTypeCheck_contains(ct) ==
    IF ct = None THEN "AttributeError"
    ELSE IF Contains(ct[1], VideoPrefix) THEN "accept" ELSE "reject"

\* file.content_type.startswith("video/") on an optional content type
ContentTypeCheck(ct) ==
    IF ct = None THEN "AttributeError"
    ELSE IF StartsWith(ct[1], VideoPrefix) THEN "accept" ELSE "reject"

\* the instants the clock is read at: 00:02:03.999999 and the next microsecond
Instants == {123999999, 124000000}

ClockStart == CHOOSE t \in Instants : \A u \in Instants : t <= u

\* datetime.utcnow().strftime("%Y%m%d%H%M%S%f") within 2024-01-01
strftime(t) ==
    LET secs == t \div 1000000
    IN  <<"2", "0", "2", "4", "0", "1", "0", "1">>
        \o ZeroPad((secs \div 3600) % 24, 2)
        \o ZeroPad((secs \div 60) % 60, 2)
        \o ZeroPad(secs % 60, 2)
        \o ZeroPad(t % 1000000, 6)

\* a plausible slip: the truncation forgotten
safe_base_untruncated(base_name) ==
    SelectSeq(base_name, LAMBDA c : isalnum(c) \/ c \in {"-", "_"})

\* "".join(c for c in base_name if c.isalnum() or c in ("-", "_"))[:50]
safe_base(base_name) ==
    LET kept == SelectSeq(base_name, LAMBDA c : isalnum(c) \/ c \in {"-", "_"})
    IN  SubSeq(kept, 1, Min(MaxBaseLen, Len(kept)))

\* f"{safe_base or 'video'}_{timestamp}{ext}"
final_name(filename, timestamp) ==
    LET base_name == splitext(basename(filename))[1]
        ext == splitext(filename)[2]
        sb == safe_base(base_name)
    IN  (IF sb = << >> THEN DefaultBase ELSE sb) \o <<"_">> \o timestamp \o ext

\* a plausible slip: the path's leading separator dropped
BuildUrl_nosep(env, name) ==
    LET base == IF env = None THEN << >> ELSE env[1]
        url_path == Tail(UploadsPath) \o name
    IN  IF base # << >> THEN base \o url_path ELSE url_path

\* base_url = os.getenv("PUBLIC_BACKEND_URL") or ""; url = base_url + url_path
BuildUrl(env, name) ==
    LET base == IF env = None THEN << >> ELSE env[1]
        url_path == UploadsPath \o name
    IN  IF base # << >> THEN base \o url_path ELSE url_path

----------------------------------------------------------------------------
(* The stores *)

\* create_document("video", doc): the collection after the insert; the store
\* assigns _id and created_at
create_document(d, doc, t) ==
    Append(d, [_id |-> Len(d) + 1,
               title |-> doc.title,
               description |-> doc.description,
               filename |-> doc.filename,
               content_type |-> doc.content_type,
               size_bytes |-> doc.size_bytes,
               created_at |-> t])

\* get_documents("video", {}, limit): the pages a query may return, a run of
\* at most limit consecutive documents (all of them when they fit)
get_documents(d, limit) ==
    IF Len(d) <= limit THEN {d}
    ELSE {SubSeq(d, first, first + limit - 1) : first \in 1..(Len(d) - limit + 1)}

\* open(file_path, "wb"): the file is created, or truncated when it exists
OpenForWrite(fs, name) ==
    [n \in DOMAIN fs \cup {name} |-> IF n = name THEN << >> ELSE fs[n]]

\* out_file.write(...) and the close: data lands at offset 0 of the file as
\* it is now; bytes another writer put beyond it stay
FilesAfterWrite(fs, name, data) ==
    [fs EXCEPT ![name] = data \o SubSeq(fs[name], Len(data) + 1, Len(fs[name]))]

\* a plausible slip: one record per filename, a later upload replacing it
SaveMetadata_upsert(d, doc, t) ==
    IF \E i \in 1..Len(d) : d[i].filename = doc.filename
    THEN LET i == CHOOSE j \in 1..Len(d) : d[j].filename = doc.filename
         IN  [d EXCEPT ![i] = [_id |-> d[i]._id,
                               title |-> doc.title,
                               description |-> doc.description,
                               filename |-> doc.filename,
                               content_type |-> doc.content_type,
                               size_bytes |-> doc.size_bytes,
                               created_at |-> t]]
    ELSE create_document(d, doc, t)

\* inserted_id = create_document("video", video_doc)
SaveMetadata(d, doc, t) == create_document(d, doc, t)

\* a plausible slip: the record inserted before the file is written
DbAfterUpload_insert_first(d, doc, t, complete, inserted) ==
    IF inserted \/ ~complete THEN SaveMetadata(d, doc, t) ELSE d

\* the insert of line 120 is reached only when the write of lines 107-108 did
\* not raise, and adds the record unless the store raises
DbAfterUpload(d, doc, t, complete, inserted) ==
    IF complete /\ inserted THEN SaveMetadata(d, doc, t) ELSE d

ListLimit == 100

\* a plausible slip: the limit not passed
ListQuery_unlimited(d) == {d}

\* docs = get_documents("video", {}, limit=100)
ListQuery(d) == get_documents(d, ListLimit)

DefaultContentType == <<"v", "i", "d", "e", "o", "/", "m", "p", "4">>

\* a plausible slip: the stored content type ignored
VideoOutOfDoc_default_type(doc, env) ==
    [id |-> Str(doc._id),
     filename |-> doc.filename,
     url |-> BuildUrl(env, doc.filename),
     content_type |-> DefaultContentType,
     size_bytes |-> doc.size_bytes]

\* the VideoOut list_videos builds of one document
VideoOutOfDoc(doc, env) ==
    [id |-> Str(doc._id),
     filename |-> doc.filename,
     url |-> BuildUrl(env, doc.filename),
     content_type |-> IF "content_type" \in DOMAIN doc
                      THEN doc.content_type ELSE DefaultContentType,
     size_bytes |-> doc.size_bytes]

----------------------------------------------------------------------------
(* Inputs *)

Title == <<"T">>

VideoType == <<"v", "i", "d", "e", "o", "/", "x">>

NestedType == <<"a", "/", "v", "i", "d", "e", "o", "/">>

\* the declared content types: absent, not a video, a video
ContentTypes == {None, Some(NestedType), Some(VideoType)}

\* "d/a b.m": a directory, a character that is filtered out, an extension
PlainName == <<"d", "/", "a", " ", "b", ".", "m">>

\* "!": nothing survives the filter, no extension
BareName == <<"!">>

\* a name that already has the shape of a stored one
CraftedName ==
    Repeat("x", MaxBaseLen) \o <<"_">> \o strftime(ClockStart) \o <<".", "m">>

Filenames == {PlainName, BareName, CraftedName}

\* the request bodies
Bodies == {<<7>>}

BaseUrls ==
    {None, Some(<< >>),
     Some(<<"h", "t", "t", "p", ":", "/", "/", "h">>),
     Some(<<"h", "t", "t", "p", ":", "/", "/", "h", "/">>)}

----------------------------------------------------------------------------
(* State *)

NoOut == [id |-> << >>, filename |-> << >>, url |-> << >>,
          content_type |-> << >>, size_bytes |-> 0]

IdleReq == [content_type |-> None, filename |-> << >>, final_name |-> << >>,
            body_len |-> 0]

NoResp == [status |-> 0, cause |-> "none", out |-> NoOut]

NoList == [listed |-> FALSE, result |-> << >>, knew |-> {}, count |-> 0]

\* the record upload number i left, made as upload_video makes it
EarlierDoc(i) ==
    [_id |-> i, title |-> Title, description |-> None,
     filename |-> final_name(BareName, strftime(i)),
     content_type |-> VideoType, size_bytes |-> 0, created_at |-> i]

\* the stores after n accepted uploads of an empty body at instants 1..n
EarlierDb(n) == [i \in 1..n |-> EarlierDoc(i)]

EarlierFiles(n) == [name \in {EarlierDoc(i).filename : i \in 1..n} |-> << >>]

Init ==
    /\ now = ClockStart
    /\ base_url \in BaseUrls
    /\ files = EarlierFiles(0)
    /\ db = << >>
    /\ pc = [s \in Slots |-> "idle"]
    /\ req = [s \in Slots |-> IdleReq]
    /\ resp = [s \in Slots |-> NoResp]
    /\ last_list = NoList

----------------------------------------------------------------------------
(* upload_video *)

\* requests are numbered in the order they arrive
MayArrive(s) == IF s = 1 THEN TRUE ELSE pc[s - 1] # "idle"

\* lines 95-96 on a content type that is absent or no video: HTTP 400, or the
\* AttributeError of None.startswith, which the framework answers with 500
UploadReject(s) ==
    /\ pc[s] = "idle"
    /\ MayArrive(s)
    /\ \E ct \in ContentTypes :
        /\ ContentTypeCheck(ct) # "accept"
        /\ req' = [req EXCEPT ![s] = [IdleReq EXCEPT !.content_type = ct]]
        /\ resp' = [resp EXCEPT ![s] =
                      [status |-> IF ContentTypeCheck(ct) = "reject" THEN 400 ELSE 500,
                       cause |-> ContentTypeCheck(ct),
                       out |-> NoOut]]
    /\ pc' = [pc EXCEPT ![s] = "done"]
    /\ UNCHANGED <<now, base_url, files, db, last_list>>

\* lines 95-107 on a video: the name is made and the file opened, then the
\* handler waits for the body; a failing open ends the request with 500
UploadBegin(s) ==
    /\ pc[s] = "idle"
    /\ MayArrive(s)
    /\ \E ct \in ContentTypes, fn \in Filenames, opened \in BOOLEAN :
        /\ ContentTypeCheck(ct) = "accept"
        /\ IF opened
           THEN /\ req' = [req EXCEPT ![s] =
                             [content_type |-> ct, filename |-> fn,
                              final_name |-> final_name(fn, strftime(now)),
                              body_len |-> 0]]
                /\ files' = OpenForWrite(files, final_name(fn, strftime(now)))
                /\ pc' = [pc EXCEPT ![s] = "writing"]
                /\ resp' = resp
           ELSE /\ req' = [req EXCEPT ![s] = [IdleReq EXCEPT !.content_type = ct]]
                /\ files' = files
                /\ pc' = [pc EXCEPT ![s] = "done"]
                /\ resp' = [resp EXCEPT ![s] =
                              [status |-> 500, cause |-> "open_failed", out |-> NoOut]]
    /\ UNCHANGED <<now, base_url, db, last_list>>

\* lines 108-135: the body is written (written bytes of it when the write
\* fails), the size read back, the record inserted unless the store fails,
\* and the descriptor returned
UploadFinish(s) ==
    /\ pc[s] = "writing"
    /\ \E body \in Bodies, written \in 0..MaxOf({Len(b) : b \in Bodies}), inserted \in BOOLEAN :
        /\ written <= Len(body)
        /\ written < Len(body) => ~inserted
        /\ LET name == req[s].final_name
               complete == written = Len(body)
               fs == FilesAfterWrite(files, name, SubSeq(body, 1, written))
               size_bytes == Len(fs[name])
               video_doc == [title |-> Title, description |-> None,
                             filename |-> name,
                             content_type |-> req[s].content_type[1],
                             size_bytes |-> size_bytes]
               after == DbAfterUpload(db, video_doc, now, complete, inserted)
           IN  /\ files' = fs
               /\ req' = [req EXCEPT ![s].body_len = Len(body)]
               /\ db' = after
               /\ IF complete /\ inserted
                  THEN /\ resp' = [resp EXCEPT ![s] =
                            [status |-> 200, cause |-> "ok",
                             out |-> [id |-> Str(after[Len(after)]._id),
                                      filename |-> name,
                                      url |-> BuildUrl(base_url, name),
                                      content_type |-> req[s].content_type[1],
                                      size_bytes |-> size_bytes]]]
                  ELSE /\ resp' = [resp EXCEPT ![s] =
                            [status |-> 500,
                             cause |-> IF complete THEN "insert_failed"
                                       ELSE "write_failed",
                             out |-> NoOut]]
    /\ pc' = [pc EXCEPT ![s] = "done"]
    /\ UNCHANGED <<now, base_url, last_list>>

----------------------------------------------------------------------------
(* list_videos *)

\* the response of list_videos over a page of documents
ListResult(docs, env) == [i \in 1..Len(docs) |-> VideoOutOfDoc(docs[i], env)]

\* lines 139-160; knew and count note which uploads had been answered and how
\* many records existed when the query ran
ListVideos ==
    /\ \E docs \in ListQuery(db) :
        last_list' = [listed |-> TRUE,
                      result |-> ListResult(docs, base_url),
                      knew |-> {s \in Slots : pc[s] = "done" /\ resp[s].status = 200},
                      count |-> Len(db)]
    /\ UNCHANGED <<now, base_url, files, db, pc, req, resp>>

\* the clock moves on
Tick ==
    /\ \E t \in Instants : t > now /\ now' = t
    /\ UNCHANGED <<base_url, files, db, pc, req, resp, last_list>>

Next ==
    \/ \E s \in Slots : UploadReject(s)
    \/ \E s \in Slots : UploadBegin(s)
    \/ \E s \in Slots : UploadFinish(s)
    \/ ListVideos
    \/ Tick

Spec == Init /\ [][Next]_vars

\* a service that already holds about a page of records: n accepted uploads
\* happened earlier, every request but one has been answered (rejected)
InitBulk ==
    /\ now = ClockStart
    /\ base_url \in BaseUrls
    /\ \E n \in {ListLimit - 1, ListLimit} :
        /\ files = EarlierFiles(n)
        /\ db = EarlierDb(n)
    /\ pc = [s \in Slots |-> IF s = 1 THEN "idle" ELSE "done"]
    /\ req = [s \in Slots |->
                IF s = 1 THEN IdleReq
                ELSE [IdleReq EXCEPT !.content_type = Some(NestedType)]]
    /\ resp = [s \in Slots |->
                 IF s = 1 THEN NoResp
                 ELSE [status |-> 400, cause |-> "reject", out |-> NoOut]]
    /\ last_list = NoList

SpecBulk == InitBulk /\ [][Next]_vars

----------------------------------------------------------------------------
(* The claims *)

Accepted(s) == pc[s] = "done" /\ resp[s].status = 200

\* the request has been given a stored filename
Named(s) == req[s].final_name # << >>

\* every descriptor a response has carried
Descriptors ==
    {resp[s].out : s \in {t \in Slots : Accepted(t)}}
        \cup {last_list.result[i] : i \in 1..Len(last_list.result)}

\* the base the environment configures: empty when unset or empty
ConfiguredBase == IF base_url = None THEN << >> ELSE base_url[1]

\* C1: no two accepted uploads are given the same stored filename, and no two
\* metadata records share a filename.
C1_FilenamesDistinct ==
    /\ \A s, t \in Slots :
        (s # t /\ Accepted(s) /\ Accepted(t))
            => resp[s].out.filename # resp[t].out.filename
    /\ \A i, j \in 1..Len(db) : i # j => db[i].filename # db[j].filename

\* the request's declared content type is present and no video type
DeclaredNonVideo(r) ==
    IF r.content_type = None THEN FALSE
    ELSE ~StartsWith(r.content_type[1], VideoPrefix)

\* C2: a request whose declared content type does not start with video/ is
\* answered 4xx in a step that changes neither the upload directory nor the
\* metadata collection.
C2_RejectLeavesStores ==
    [][\A s \in Slots :
         (pc[s] = "idle" /\ pc'[s] = "done" /\ DeclaredNonVideo(req'[s]))
             => /\ resp'[s].status \in 400..499
                /\ files' = files
                /\ db' = db]_vars

\* a non-video request was rejected while both stores held something
C2_Witness ==
    \E s \in Slots :
        /\ pc[s] = "done"
        /\ req[s].content_type = Some(NestedType)
        /\ resp[s].status = 400
        /\ db # << >>
        /\ DOMAIN files # {}

\* C3: a request with an absent or non-video content type ends in 4xx, and a
\* 5xx answer comes only from a failure of the file write or of the store.
C3_BadTypeIsClientError ==
    \A s \in Slots :
        pc[s] = "done" =>
            /\ (req[s].content_type = None \/ DeclaredNonVideo(req[s]))
                   => resp[s].status \in 400..499
            /\ resp[s].status >= 500
                   => resp[s].cause \in {"open_failed", "write_failed", "insert_failed"}

\* C4: every record's size_bytes is the length of the file stored under its
\* filename, and an accepted upload's size_bytes is the length of its body.
C4_SizeMatchesFile ==
    /\ \A i \in 1..Len(db) :
        /\ db[i].filename \in DOMAIN files
        /\ db[i].size_bytes = Len(files[db[i].filename])
    /\ \A s \in Slots :
        Accepted(s) => resp[s].out.size_bytes = req[s].body_len

\* descriptor d of a listing agrees with the descriptor D an upload returned
SameVideo(d, D) ==
    /\ d.id = D.id
    /\ d.filename = D.filename
    /\ d.content_type = D.content_type
    /\ d.size_bytes = D.size_bytes

\* C5 as stated: a listing holds a matching descriptor for every upload that
\* had been answered when it ran.
C5_RoundTrip ==
    last_list.listed =>
        \A s \in last_list.knew :
            \E i \in 1..Len(last_list.result) :
                SameVideo(last_list.result[i], resp[s].out)

\* C5 amended: it does when the collection held at most ListLimit records,
\* and a listed descriptor with the upload's id always agrees with it.
C5_RoundTripWithinPage ==
    last_list.listed =>
        \A s \in last_list.knew :
            /\ last_list.count <= ListLimit =>
                   \E i \in 1..Len(last_list.result) :
                       SameVideo(last_list.result[i], resp[s].out)
            /\ \A i \in 1..Len(last_list.result) :
                   last_list.result[i].id = resp[s].out.id
                       => SameVideo(last_list.result[i], resp[s].out)

\* a listing of a full page that holds an upload answered before it
C5_Witness ==
    /\ last_list.listed
    /\ last_list.count = ListLimit
    /\ \E s \in last_list.knew :
           \E i \in 1..Len(last_list.result) :
               SameVideo(last_list.result[i], resp[s].out)

\* C6: a listing holds at most ListLimit descriptors, each the descriptor of
\* exactly one stored record.
C6_ListAtMostLimit ==
    last_list.listed =>
        /\ Len(last_list.result) <= ListLimit
        /\ \A i \in 1..Len(last_list.result) :
               \E j \in 1..Len(db) :
                   /\ Str(db[j]._id) = last_list.result[i].id
                   /\ db[j].filename = last_list.result[i].filename
                   /\ db[j].size_bytes = last_list.result[i].size_bytes
                   /\ \A k \in 1..Len(db) :
                          Str(db[k]._id) = last_list.result[i].id => k = j
        /\ \A i, k \in 1..Len(last_list.result) :
               last_list.result[i].id = last_list.result[k].id => i = k

\* a listing cut to ListLimit descriptors of a larger collection
C6_Witness ==
    /\ last_list.listed
    /\ last_list.count > ListLimit
    /\ Len(last_list.result) = ListLimit

\* the url is the base, then /uploads/, then the filename
UrlIsBaseThenPath(d) == d.url = ConfiguredBase \o UploadsPath \o d.filename

\* the base's last character and the path's first are both a slash
DoubleSlashAtJoin(d) ==
    /\ ConfiguredBase # << >>
    /\ d.url[Len(ConfiguredBase)] = "/"
    /\ d.url[Len(ConfiguredBase) + 1] = "/"

\* C7 as stated: every url is base + /uploads/<filename>, root-relative
\* without a base, with the separator present and no double slash at the join.
C7_UrlNoDoubleSlash ==
    \A d \in Descriptors :
        /\ UrlIsBaseThenPath(d)
        /\ d.url[Len(ConfiguredBase) + 1] = "/"
        /\ ~DoubleSlashAtJoin(d)

\* C7 amended: the double slash is excluded only for a base that does not
\* itself end in a slash.
C7_UrlExactConcatenation ==
    \A d \in Descriptors :
        /\ UrlIsBaseThenPath(d)
        /\ d.url[Len(ConfiguredBase) + 1] = "/"
        /\ (ConfiguredBase # << >> /\ ConfiguredBase[Len(ConfiguredBase)] # "/")
               => ~DoubleSlashAtJoin(d)

\* an upload answered and a listing made under a base without a final slash
C7_Witness ==
    /\ ConfiguredBase # << >>
    /\ ConfiguredBase[Len(ConfiguredBase)] # "/"
    /\ \E s \in Slots : Accepted(s)
    /\ Len(last_list.result) >= 1

SafeChars == LetterSet \cup DigitSet \cup {"-", "_"}

\* the first index of c in s, Len(s) + 1 when there is none
FirstIndexOf(s, c) ==
    LET I == {i \in 1..Len(s) : s[i] = c}
    IN  IF I = {} THEN Len(s) + 1 ELSE CHOOSE x \in I : \A y \in I : x <= y

\* the stored filename of request s is a safe base of 1..MaxBaseLen
\* characters (video when no character of the original base name is safe),
\* an underscore, TsWidth digits, and the original name's extension
SafeShape(s) ==
    LET fn == req[s].final_name
        orig == req[s].filename
        origBase == splitext(basename(orig))[1]
        dot == FirstIndexOf(fn, ".")
        stem == SubSeq(fn, 1, dot - 1)
        ext == SubSeq(fn, dot, Len(fn))
        base == SubSeq(stem, 1, Len(stem) - TsWidth - 1)
        stamp == SubSeq(stem, Len(stem) - TsWidth + 1, Len(stem))
    IN  /\ Len(stem) >= TsWidth + 2
        /\ stem[Len(stem) - TsWidth] = "_"
        /\ \A i \in 1..TsWidth : stamp[i] \in DigitSet
        /\ Len(base) <= MaxBaseLen
        /\ \A i \in 1..Len(base) : base[i] \in SafeChars
        /\ (\A i \in 1..Len(origBase) : origBase[i] \notin SafeChars)
               => base = DefaultBase
        /\ ext = SubSeq(orig, Len(orig) - Len(ext) + 1, Len(orig))
        /\ \A i \in 1..Len(ext) : (ext[i] = ".") = (i = 1)
        /\ \A i \in 1..Len(ext) : ext[i] # "/"

\* the length of the base part of a stored filename
BaseLen(fn) == FirstIndexOf(fn, ".") - 1 - TsWidth - 1

\* C8 as stated: a stored filename is never the client-supplied name, and
\* has the safe shape.
C8_NeverClientName ==
    \A s \in Slots :
        Named(s) => (req[s].final_name # req[s].filename /\ SafeShape(s))

\* C8 amended: a stored filename has the safe shape, and is the
\* client-supplied name only when that name is itself a base of MaxBaseLen
\* safe characters, an underscore, this upload's timestamp and the extension.
C8_SafeShape ==
    \A s \in Slots :
        Named(s) =>
            /\ SafeShape(s)
            /\ req[s].final_name = req[s].filename
                   => BaseLen(req[s].final_name) = MaxBaseLen

\* accepted uploads of a name cut to MaxBaseLen characters, stored under
\* another name, and of a name of which nothing survives
C8_Witness ==
    \E s, t \in Slots :
        /\ Accepted(s)
        /\ req[s].filename = CraftedName
        /\ req[s].final_name # CraftedName
        /\ Accepted(t)
        /\ req[t].filename = BareName

\* C9: every step keeps the records there are, as they are, in place; a
\* listing changes neither the collection nor the upload directory.
C9_RecordsOnlyGrow ==
    [][/\ Len(db') >= Len(db)
       /\ SubSeq(db', 1, Len(db)) = db
       /\ last_list' # last_list => (db' = db /\ files' = files)]_vars

\* a record was inserted after a listing that already showed one
C9_Witness ==
    /\ last_list.listed
    /\ last_list.count >= 1
    /\ Len(db) > last_list.count

\* C10: every record's filename names a file of the upload directory and no
\* file is ever removed; an upload that ends in a failed open or write
\* inserts no record; one that ends in a failed insert leaves its file,
\* fully written, and no record, and is answered 5xx; an accepted one
\* appends its record for a file that exists.
C10_WriteBeforeInsert ==
    [][/\ \A i \in 1..Len(db') : db'[i].filename \in DOMAIN files'
       /\ DOMAIN files \subseteq DOMAIN files'
       /\ \A s \in Slots :
            (pc[s] # "done" /\ pc'[s] = "done") =>
                /\ resp'[s].cause \in {"open_failed", "write_failed"}
                       => (db' = db /\ resp'[s].status >= 500)
                /\ resp'[s].cause = "insert_failed"
                       => /\ db' = db
                          /\ resp'[s].status >= 500
                          /\ req'[s].final_name \in DOMAIN files'
                          /\ Len(files'[req'[s].final_name]) >= req'[s].body_len
                /\ resp'[s].cause = "ok"
                       => /\ Len(db') = Len(db) + 1
                          /\ db'[Len(db')].filename = req'[s].final_name
                          /\ req'[s].final_name \in DOMAIN files]_vars

\* a failed insert left an orphan: a written file no record names
C10_Witness ==
    \E s \in Slots :
        /\ pc[s] = "done"
        /\ resp[s].cause = "insert_failed"
        /\ req[s].body_len >= 1
        /\ req[s].final_name \in DOMAIN files
        /\ \A i \in 1..Len(db) : db[i].filename # req[s].final_name

====
